---- MODULE Spec2Model ----
(***************************************************************************)
(* Simple Splitwise API (src/main.py): an in-memory ledger of users and    *)
(* expenses with two id counters, flushed to one JSON file after every     *)
(* mutation and loaded from it when the process starts.                    *)
(*                                                                         *)
(* Values.  A Python dict is a sequence of entries [k, v] in insertion     *)
(* order.  A float amount is an integer number of currency units; shares   *)
(* and balances are exact fractions <<numerator, denominator>>.  With      *)
(* whole amounts and at most three participant slots a balance is a        *)
(* multiple of 1/6, never within float error of a half-cent boundary, so   *)
(* round(x, 2) on the float and on the fraction agree.  A rounded balance  *)
(* is an integer number of hundredths.                                     *)
(* A datetime is [t |-> "datetime", at, off]; its ISO text is              *)
(* [t |-> "str", at, off] where off is the UTC-offset suffix of the text.  *)
(***************************************************************************)
EXTENDS Integers, Sequences, FiniteSets, TLC

VARIABLES
    db_users,            \* main.py:23   dict id -> {"id", "name"}
    db_expenses,         \* main.py:24   list of expense dicts
    next_user_id,        \* main.py:25
    next_expense_id,     \* main.py:26
    store,               \* the content of DATA_FILE (main.py:16)
    last,                \* the last request and the response it got
    issued_user_ids,     \* history: ids returned by POST /users so far
    issued_expense_ids,  \* history: ids returned by POST /expenses so far
    tasks,               \* the requests in flight, one coroutine each
    running              \* the coroutine the event loop is running, or 0

vars == <<db_users, db_expenses, next_user_id, next_expense_id, store, last,
          issued_user_ids, issued_expense_ids, tasks, running>>

loop == <<tasks, running>>

mem == <<db_users, db_expenses, next_user_id, next_expense_id>>

(***************************************************************************)
(* Bounds of the model.                                                    *)
(***************************************************************************)
MaxUsers == 3        \* registrations are cut off once next_user_id exceeds it
MaxExpenses == 2     \* recordings are cut off once next_expense_id exceeds it
MaxTasks == 3        \* requests in flight at the same time

NameInputs == {"Alice", ""}
UserInputs == {[name |-> n] : n \in NameInputs} \cup {[other |-> "x"]}
UserIdInputs == 1..3

ExpenseIn(amount, paid_by_user_id, participants) ==
    [description |-> "Dinner", amount |-> amount,
     paid_by_user_id |-> paid_by_user_id, participants |-> participants]

\* Request bodies the schema accepts: thirds, halves, a participant listed
\* twice, a payer who takes no part, a single participant
WellFormedInputs ==
    {ExpenseIn(1, 1, <<1, 2, 3>>), ExpenseIn(2, 1, <<1, 2>>),
     ExpenseIn(3, 1, <<1, 1, 2>>), ExpenseIn(1, 3, <<1, 2>>),
     ExpenseIn(2, 2, <<3, 2>>), ExpenseIn(1, 2, <<2>>)}

\* Request bodies the schema rejects
MalformedInputs ==
    {ExpenseIn(0, 1, <<1, 2>>), ExpenseIn(-1, 3, <<3, 2>>),
     ExpenseIn(1, 1, <<>>), ExpenseIn(0, 2, <<>>)}

ExpenseInputs == WellFormedInputs \cup MalformedInputs
ClockInputs == {7}

(***************************************************************************)
(* Python dicts, in insertion order.                                       *)
(***************************************************************************)
DictKeys(d) == {d[i].k : i \in DOMAIN d}

DictHas(d, key) == \E i \in DOMAIN d : d[i].k = key

DictGet(d, key) == d[CHOOSE i \in DOMAIN d : d[i].k = key].v

\* d[key] = value: an existing key keeps its position, a new key goes last
DictSet(d, key, value) ==
    IF DictHas(d, key)
    THEN [i \in DOMAIN d |-> IF d[i].k = key THEN [k |-> key, v |-> value] ELSE d[i]]
    ELSE Append(d, [k |-> key, v |-> value])

DictValues(d) == [i \in DOMAIN d |-> d[i].v]

\* bool(x) of a stored user: only the empty dict is falsy
EmptyDict == [empty |-> TRUE]
Truthy(v) == v # EmptyDict

(***************************************************************************)
(* Text of integers: str(k) as json.dump writes a dict key, int(k) as      *)
(* load_data reads it back.                                                *)
(***************************************************************************)
Digits == <<"0", "1", "2", "3", "4", "5", "6", "7", "8", "9">>

RECURSIVE IntToStr(_)
IntToStr(n) ==
    IF n < 10 THEN Digits[n + 1]
    ELSE IntToStr(n \div 10) \o Digits[(n % 10) + 1]

KeyRange == 0..(10 * MaxUsers)
IsIntText(s) == \E n \in KeyRange : IntToStr(n) = s
StrToInt(s) == CHOOSE n \in KeyRange : IntToStr(n) = s

(***************************************************************************)
(* datetime <-> ISO-8601 text.                                             *)
(***************************************************************************)
UtcNow(at) == [t |-> "datetime", at |-> at, off |-> "+00:00"]

isoformat(dt) == [t |-> "str", at |-> dt.at, off |-> dt.off]

\* s.replace("Z", "+00:00")
ReplaceZ(s) == IF s.off = "Z" THEN [s EXCEPT !.off = "+00:00"] ELSE s

\* datetime.fromisoformat accepts an offset or none; anything else is ValueError
IsIsoText(s) == s.off \in {"+00:00", ""}
fromisoformat(s) == [t |-> "datetime", at |-> s.at, off |-> s.off]

(***************************************************************************)
(* The data file.  store.t is "absent" (no file), "undecodable" (not       *)
(* JSON: garbage, or a write cut short), "array" (JSON, but not an object) *)
(* or "object" with the four entries, each tagged: "missing", or the JSON  *)
(* type it holds.                                                          *)
(***************************************************************************)
Absent == [t |-> "absent"]
Undecodable == [t |-> "undecodable"]
Missing == [t |-> "missing"]
JsonNumber(n) == [t |-> "number", n |-> n]
JsonObject(items) == [t |-> "object", items |-> items]
JsonArray(items) == [t |-> "array", items |-> items]

IsDatetime(x) == x.t = "datetime"
IsStr(x) == x.t = "str"

\* main.py:112-117: a copy of each expense with its datetime as ISO text
expenses_to_save(expenses) ==
    [i \in DOMAIN expenses |->
        IF IsDatetime(expenses[i].created_at)
        THEN [expenses[i] EXCEPT !.created_at = isoformat(@)]
        ELSE expenses[i]]

\* json.dump of a dict with int keys writes each key as its decimal text
JsonKeys(d) == [i \in DOMAIN d |-> [k |-> IntToStr(d[i].k), v |-> d[i].v]]

data_to_save(users, expenses, nuid, neid) ==
    [t |-> "object",
     users |-> JsonObject(JsonKeys(users)),
     expenses |-> JsonArray(expenses_to_save(expenses)),
     next_user_id |-> JsonNumber(nuid),
     next_expense_id |-> JsonNumber(neid)]

\* What the disk does to one save_data call.  "ok": the file is written.
\* "open_fails": open(DATA_FILE, "w") raises, the file keeps its content.
\* "write_fails": open has truncated the file and json.dump raises part-way.
\* Either exception is caught and printed.
SaveOutcomes == {"ok", "open_fails", "write_fails"}

save_data(users, expenses, nuid, neid, io, file) ==
    CASE io = "ok" -> data_to_save(users, expenses, nuid, neid)
      [] io = "open_fails" -> file
      [] io = "write_fails" -> Undecodable

\* save_data with no try/except: a failing write reaches the caller
save_raises_uncaught(io) == io # "ok"

\* main.py:110, 128-129: save_data catches every exception of the write, so
\* none reaches the handler that called it
save_raises(io) == FALSE

\* {int(k): v for k, v in items}: built whole before it is assigned
RECURSIVE IntKeys(_, _)
IntKeys(items, acc) ==
    IF items = <<>> THEN acc
    ELSE IntKeys(Tail(items), DictSet(acc, StrToInt(Head(items).k), Head(items).v))

IsDictElem(e) == "id" \in DOMAIN e

\* load_data leaving created_at as the text it read
parse_created_at_keeps_text(e) == e

\* main.py:84-93: one element's created_at text back to a datetime
parse_created_at(e) ==
    IF IsStr(e.created_at) /\ IsIsoText(ReplaceZ(e.created_at))
    THEN [e EXCEPT !.created_at = fromisoformat(ReplaceZ(@))]
    ELSE e

\* main.py:82-94: db_expenses grows element by element; an element that is
\* no dict raises TypeError and leaves what was appended before it
RECURSIVE load_expenses(_, _)
load_expenses(items, acc) ==
    IF items = <<>> THEN [raised |-> FALSE, list |-> acc]
    ELSE IF ~IsDictElem(Head(items)) THEN [raised |-> TRUE, list |-> acc]
    ELSE load_expenses(Tail(items), Append(acc, parse_created_at(Head(items))))

Globals(users, expenses, nuid, neid) ==
    [db_users |-> users, db_expenses |-> expenses,
     next_user_id |-> nuid, next_expense_id |-> neid]

\* main.py:23-26
Defaults == Globals(<<>>, <<>>, 1, 1)

CounterOf(entry) == IF entry.t = "number" THEN entry.n ELSE 1

\* main.py:71-106.  cur: the globals when load_data is called.  Every
\* exception is caught; the globals assigned before it keep their new value.
load_data(cur, file) ==
    IF file.t # "object" THEN cur
    ELSE IF file.users.t = "number" THEN cur
    ELSE
      LET items == IF file.users.t = "missing" THEN <<>> ELSE file.users.items
      IN  IF \E i \in DOMAIN items : ~IsIntText(items[i].k) THEN cur
          ELSE
            LET users == IntKeys(items, <<>>)
            IN  IF file.expenses.t = "number"
                THEN [cur EXCEPT !.db_users = users, !.db_expenses = <<>>]
                ELSE
                  LET raw == IF file.expenses.t = "missing" THEN <<>>
                             ELSE file.expenses.items
                      got == load_expenses(raw, <<>>)
                  IN  IF got.raised
                      THEN [cur EXCEPT !.db_users = users, !.db_expenses = got.list]
                      ELSE Globals(users, got.list,
                                   CounterOf(file.next_user_id),
                                   CounterOf(file.next_expense_id))

(***************************************************************************)
(* Exact fractions <<n, d>>, d > 0, in lowest terms.                       *)
(***************************************************************************)
Abs(x) == IF x < 0 THEN -x ELSE x

RECURSIVE Gcd(_, _)
Gcd(a, b) == IF b = 0 THEN a ELSE Gcd(b, a % b)

Frac(n, d) == LET g == Gcd(Abs(n), d) IN <<n \div g, d \div g>>
Whole(n) == <<n, 1>>
FracAdd(a, b) == Frac(a[1] * b[2] + b[1] * a[2], a[2] * b[2])
FracSub(a, b) == Frac(a[1] * b[2] - b[1] * a[2], a[2] * b[2])
FracDiv(a, k) == Frac(a[1], a[2] * k)

\* round(x, 2), in hundredths: to the nearest hundredth, a tie to the even one
round2(x) ==
    LET n == 100 * x[1]
        q == n \div x[2]
        r == n % x[2]
    IN  IF 2 * r < x[2] THEN q
        ELSE IF 2 * r > x[2] THEN q + 1
        ELSE IF q % 2 = 0 THEN q ELSE q + 1

\* get_user_or_404 that never raises
get_user_or_404_never_raises(users, user_id) ==
    [ok |-> TRUE, user |-> IF DictHas(users, user_id) THEN DictGet(users, user_id)
                            ELSE EmptyDict]

(***************************************************************************)
(* main.py:137-144                                                         *)
(***************************************************************************)
get_user_or_404(users, user_id) ==
    IF DictHas(users, user_id) /\ Truthy(DictGet(users, user_id))
    THEN [ok |-> TRUE, user |-> DictGet(users, user_id)]
    ELSE [ok |-> FALSE, status |-> 404, detail |-> user_id]

(***************************************************************************)
(* GET /balances, main.py:251-297.  balances is the dict of line 261,      *)
(* keyed like db_users; "raised" is the KeyError of line 276 for a payer   *)
(* that is no key of it.                                                   *)
(***************************************************************************)
\* balances started from the users the expenses name, not from db_users
ZeroBalancesOfActive(users) ==
    LET named(u) == \E j \in DOMAIN db_expenses :
                        \/ db_expenses[j].paid_by_user_id = u.k
                        \/ \E n \in DOMAIN db_expenses[j].participants :
                              db_expenses[j].participants[n] = u.k
        active == SelectSeq(users, named)
    IN  [i \in DOMAIN active |-> [k |-> active[i].k, v |-> Whole(0)]]

ZeroBalances(users) == [i \in DOMAIN users |-> [k |-> users[i].k, v |-> Whole(0)]]

\* debit_participants debiting each distinct participant once
RECURSIVE debit_participants_dedup(_, _, _)
debit_participants_dedup(balances, participants, share) ==
    IF participants = <<>> THEN balances
    ELSE LET p == Head(participants)
             rest == SelectSeq(Tail(participants), LAMBDA q : q # p)
             next == IF DictHas(balances, p)
                     THEN DictSet(balances, p, FracSub(DictGet(balances, p), share))
                     ELSE balances
         IN  debit_participants_dedup(next, rest, share)

\* main.py:279-283
RECURSIVE debit_participants(_, _, _)
debit_participants(balances, participants, share) ==
    IF participants = <<>> THEN balances
    ELSE LET p == Head(participants)
             next == IF DictHas(balances, p)
                     THEN DictSet(balances, p, FracSub(DictGet(balances, p), share))
                     ELSE balances
         IN  debit_participants(next, Tail(participants), share)

\* apply_expense crediting the payer one share instead of the full amount
apply_expense_credits_share(balances, expense) ==
    LET paid_by_user_id == expense.paid_by_user_id
        participants == expense.participants
    IN  IF participants = <<>> THEN [raised |-> FALSE, balances |-> balances]
        ELSE IF ~DictHas(balances, paid_by_user_id)
             THEN [raised |-> TRUE, balances |-> balances]
        ELSE LET share == FracDiv(Whole(expense.amount), Len(participants))
                 credited == DictSet(balances, paid_by_user_id,
                                     FracAdd(DictGet(balances, paid_by_user_id), share))
             IN  [raised |-> FALSE,
                  balances |-> debit_participants(credited, participants, share)]

\* main.py:264-283, one expense
apply_expense(balances, expense) ==
    LET paid_by_user_id == expense.paid_by_user_id
        amount == Whole(expense.amount)
        participants == expense.participants
    IN  IF participants = <<>> THEN [raised |-> FALSE, balances |-> balances]
        ELSE IF ~DictHas(balances, paid_by_user_id)
             THEN [raised |-> TRUE, balances |-> balances]
        ELSE LET share_per_participant == FracDiv(amount, Len(participants))
                 credited == DictSet(balances, paid_by_user_id,
                                     FracAdd(DictGet(balances, paid_by_user_id), amount))
             IN  [raised |-> FALSE,
                  balances |-> debit_participants(credited, participants,
                                                  share_per_participant)]

\* main.py:263-283
RECURSIVE accumulate(_, _)
accumulate(balances, expenses) ==
    IF expenses = <<>> THEN [raised |-> FALSE, balances |-> balances]
    ELSE LET one == apply_expense(balances, Head(expenses))
         IN  IF one.raised THEN one ELSE accumulate(one.balances, Tail(expenses))

\* main.py:286-297
RECURSIVE user_balances(_, _)
user_balances(balances, users) ==
    IF balances = <<>> THEN <<>>
    ELSE LET user_id == Head(balances).k
             rest == user_balances(Tail(balances), users)
         IN  IF DictHas(users, user_id) /\ Truthy(DictGet(users, user_id))
             THEN <<[user_id |-> user_id,
                     name |-> DictGet(users, user_id).name,
                     balance |-> round2(Head(balances).v)]>> \o rest
             ELSE rest

get_balances(users, expenses) ==
    IF users = <<>> THEN [status |-> 200, body |-> <<>>]
    ELSE LET acc == accumulate(ZeroBalances(users), expenses)
         IN  IF acc.raised THEN [status |-> 500, body |-> <<>>]
             ELSE [status |-> 200, body |-> user_balances(acc.balances, users)]

(***************************************************************************)
(* Request validation by the pydantic models.                              *)
(***************************************************************************)
\* UserBase, main.py:30-31: name is a required str; any str passes
valid_user(user_in) == "name" \in DOMAIN user_in

\* ExpenseBase with ge=0 in place of gt=0
valid_expense_ge(expense_in) ==
    /\ expense_in.amount >= 0
    /\ Len(expense_in.participants) >= 1

\* ExpenseBase, main.py:42-48: amount gt=0, participants min_items=1
valid_expense(expense_in) ==
    /\ expense_in.amount > 0
    /\ Len(expense_in.participants) >= 1

\* create_expense without the loop over the participants
check_participants_skipped(users, participants) == [ok |-> TRUE]

\* main.py:205-206: the first participant get_user_or_404 rejects
RECURSIVE check_participants(_, _)
check_participants(users, participants) ==
    IF participants = <<>> THEN [ok |-> TRUE]
    ELSE LET r == get_user_or_404(users, Head(participants))
         IN  IF r.ok THEN check_participants(users, Tail(participants)) ELSE r

\* create_expense looking up the participants before the payer
check_expense_participants_first(users, expense_in) ==
    LET payer == get_user_or_404(users, expense_in.paid_by_user_id)
        parts == check_participants(users, expense_in.participants)
    IN  IF ~parts.ok THEN parts
        ELSE IF ~payer.ok THEN payer
        ELSE [ok |-> TRUE]

\* main.py:201-212: the checks of create_expense before it changes anything
check_expense(users, expense_in) ==
    LET payer == get_user_or_404(users, expense_in.paid_by_user_id)
        parts == check_participants(users, expense_in.participants)
    IN  IF ~payer.ok THEN payer
        ELSE IF ~parts.ok THEN parts
        ELSE IF expense_in.participants = <<>>
             THEN [ok |-> FALSE, status |-> 400, detail |-> 0]
        ELSE [ok |-> TRUE]

\* new_expense_dict taking the id from the users' counter
new_expense_dict_user_counter(expense_in, id, at) ==
    [id |-> next_user_id,
     description |-> expense_in.description,
     amount |-> expense_in.amount,
     paid_by_user_id |-> expense_in.paid_by_user_id,
     participants |-> expense_in.participants,
     created_at |-> UtcNow(at)]

\* main.py:214-218
new_expense_dict(expense_in, id, at) ==
    [id |-> id,
     description |-> expense_in.description,
     amount |-> expense_in.amount,
     paid_by_user_id |-> expense_in.paid_by_user_id,
     participants |-> expense_in.participants,
     created_at |-> UtcNow(at)]

\* main.py:234-247: the Expense model needs a datetime in created_at
get_expenses(expenses) ==
    LET out == [i \in DOMAIN expenses |-> parse_created_at(expenses[i])]
    IN  IF \E i \in DOMAIN out : ~IsDatetime(out[i].created_at)
        THEN [status |-> 500, body |-> <<>>]
        ELSE [status |-> 200, body |-> out]

(***************************************************************************)
(* The requests.  Each action is one handler run to its response.          *)
(***************************************************************************)
Reply(op, status, detail, body) ==
    last' = [op |-> op, status |-> status, detail |-> detail, body |-> body]

\* The response of a handler that ran from its first statement to its
\* return with no other request in flight
Respond(op, status, detail, body) ==
    /\ Reply(op, status, detail, body)
    /\ UNCHANGED loop

\* create_user without next_user_id += 1
CreateUserNoIncrement(user_in, io) ==
    IF ~valid_user(user_in)
    THEN /\ Respond("create_user", 422, 0, <<>>)
         /\ UNCHANGED <<mem, store, issued_user_ids, issued_expense_ids>>
    ELSE LET new_user == [id |-> next_user_id, name |-> user_in.name]
         IN  /\ next_user_id <= MaxUsers
             /\ db_users' = DictSet(db_users, next_user_id, new_user)
             /\ next_user_id' = next_user_id
             /\ store' = save_data(db_users', db_expenses, next_user_id',
                                   next_expense_id, io, store)
             /\ Respond("create_user", 201, 0, new_user)
             /\ issued_user_ids' = issued_user_ids \cup {new_user.id}
             /\ UNCHANGED <<db_expenses, next_expense_id, issued_expense_ids>>

\* POST /users, main.py:163-173
CreateUser(user_in, io) ==
    IF ~valid_user(user_in)
    THEN /\ Respond("create_user", 422, 0, <<>>)
         /\ UNCHANGED <<mem, store, issued_user_ids, issued_expense_ids>>
    ELSE LET new_user == [id |-> next_user_id, name |-> user_in.name]
         IN  /\ next_user_id <= MaxUsers
             /\ db_users' = DictSet(db_users, next_user_id, new_user)
             /\ next_user_id' = next_user_id + 1
             /\ store' = save_data(db_users', db_expenses, next_user_id',
                                   next_expense_id, io, store)
             /\ Respond("create_user", IF save_raises(io) THEN 500 ELSE 201, 0, new_user)
             /\ issued_user_ids' = issued_user_ids \cup {new_user.id}
             /\ UNCHANGED <<db_expenses, next_expense_id, issued_expense_ids>>

\* create_expense calling save_data before it appends and increments
CreateExpenseSaveEarly(expense_in, at, io) ==
    IF ~valid_expense(expense_in)
    THEN /\ Respond("create_expense", 422, 0, <<>>)
         /\ UNCHANGED <<mem, store, issued_user_ids, issued_expense_ids>>
    ELSE LET checked == check_expense(db_users, expense_in)
             new == new_expense_dict(expense_in, next_expense_id, at)
         IN  IF ~checked.ok
             THEN /\ Respond("create_expense", checked.status, checked.detail, <<>>)
                  /\ UNCHANGED <<mem, store, issued_user_ids, issued_expense_ids>>
             ELSE /\ next_expense_id <= MaxExpenses
                  /\ store' = save_data(db_users, db_expenses, next_user_id,
                                        next_expense_id, io, store)
                  /\ db_expenses' = Append(db_expenses, new)
                  /\ next_expense_id' = next_expense_id + 1
                  /\ Respond("create_expense", 201, 0, new)
                  /\ issued_expense_ids' = issued_expense_ids \cup {new.id}
                  /\ UNCHANGED <<db_users, next_user_id, issued_user_ids>>

\* create_expense putting the new expense first in db_expenses
CreateExpensePrepend(expense_in, at, io) ==
    IF ~valid_expense(expense_in)
    THEN /\ Respond("create_expense", 422, 0, <<>>)
         /\ UNCHANGED <<mem, store, issued_user_ids, issued_expense_ids>>
    ELSE LET checked == check_expense(db_users, expense_in)
             new == new_expense_dict(expense_in, next_expense_id, at)
         IN  IF ~checked.ok
             THEN /\ Respond("create_expense", checked.status, checked.detail, <<>>)
                  /\ UNCHANGED <<mem, store, issued_user_ids, issued_expense_ids>>
             ELSE /\ next_expense_id <= MaxExpenses
                  /\ db_expenses' = <<new>> \o db_expenses
                  /\ next_expense_id' = next_expense_id + 1
                  /\ store' = save_data(db_users, db_expenses', next_user_id,
                                        next_expense_id', io, store)
                  /\ Respond("create_expense", 201, 0, new)
                  /\ issued_expense_ids' = issued_expense_ids \cup {new.id}
                  /\ UNCHANGED <<db_users, next_user_id, issued_user_ids>>

\* POST /expenses, main.py:193-225
CreateExpense(expense_in, at, io) ==
    IF ~valid_expense(expense_in)
    THEN /\ Respond("create_expense", 422, 0, <<>>)
         /\ UNCHANGED <<mem, store, issued_user_ids, issued_expense_ids>>
    ELSE LET checked == check_expense(db_users, expense_in)
             new == new_expense_dict(expense_in, next_expense_id, at)
         IN  IF ~checked.ok
             THEN /\ Respond("create_expense", checked.status, checked.detail, <<>>)
                  /\ UNCHANGED <<mem, store, issued_user_ids, issued_expense_ids>>
             ELSE /\ next_expense_id <= MaxExpenses
                  /\ db_expenses' = Append(db_expenses, new)
                  /\ next_expense_id' = next_expense_id + 1
                  /\ store' = save_data(db_users, db_expenses', next_user_id,
                                        next_expense_id', io, store)
                  /\ Respond("create_expense", IF save_raises(io) THEN 500 ELSE 201, 0, new)
                  /\ issued_expense_ids' = issued_expense_ids \cup {new.id}
                  /\ UNCHANGED <<db_users, next_user_id, issued_user_ids>>

\* GET /users, main.py:176-181
GetUsers ==
    /\ Respond("get_users", 200, 0, DictValues(db_users))
    /\ UNCHANGED <<mem, store, issued_user_ids, issued_expense_ids>>

\* GET /users/{user_id}, main.py:184-189
GetUser(user_id) ==
    LET r == get_user_or_404(db_users, user_id)
    IN  /\ IF r.ok THEN Respond("get_user", 200, 0, r.user)
                    ELSE Respond("get_user", r.status, r.detail, <<>>)
        /\ UNCHANGED <<mem, store, issued_user_ids, issued_expense_ids>>

\* get_expenses converting created_at in db_expenses itself, not in a copy
GetExpensesInPlace ==
    LET r == get_expenses(db_expenses)
    IN  /\ Respond("get_expenses", r.status, 0, r.body)
        /\ db_expenses' = expenses_to_save(db_expenses)
        /\ UNCHANGED <<db_users, next_user_id, next_expense_id, store,
                       issued_user_ids, issued_expense_ids>>

\* GET /expenses, main.py:228-247
GetExpenses ==
    LET r == get_expenses(db_expenses)
    IN  /\ Respond("get_expenses", r.status, 0, r.body)
        /\ UNCHANGED <<mem, store, issued_user_ids, issued_expense_ids>>

\* GET /balances, main.py:251-297
GetBalances ==
    LET r == get_balances(db_users, db_expenses)
    IN  /\ Respond("get_balances", r.status, 0, r.body)
        /\ UNCHANGED <<mem, store, issued_user_ids, issued_expense_ids>>

\* The process ends and starts again: the module is imported anew, the
\* globals get their defaults (main.py:23-26) and load_data runs (main.py:133)
Restart ==
    LET g == load_data(Defaults, store)
    IN  /\ db_users' = g.db_users
        /\ db_expenses' = g.db_expenses
        /\ next_user_id' = g.next_user_id
        /\ next_expense_id' = g.next_expense_id
        /\ Respond("restart", 0, 0, <<>>)
        /\ UNCHANGED <<store, issued_user_ids, issued_expense_ids>>

(***************************************************************************)
(* The handlers on the event loop.  Every handler is an `async def`        *)
(* coroutine (main.py:164, 177, 185, 194, 229, 252) and one asyncio event  *)
(* loop runs them: it runs one coroutine at a time and takes up another    *)
(* only where the running one awaits or returns.  A task is one request in *)
(* flight, [op, arg, pc, loc, res, seen]: pc is the statement it executes  *)
(* next, loc its local variables, res its response, and seen the history   *)
(* of the reports the ledger would have given since get_balances began.    *)
(***************************************************************************)
Tasks == 1..MaxTasks

Idle ==
    [op |-> "none", arg |-> <<>>, pc |-> "idle", loc |-> <<>>, res |-> <<>>,
     seen |-> {}]

ConcRequests ==
    {[op |-> "create_user", arg |-> [name |-> "Carol"]],
     [op |-> "create_expense", arg |-> ExpenseIn(2, 1, <<1, 2>>)],
     [op |-> "create_expense", arg |-> ExpenseIn(1, 3, <<1, 2>>)],
     [op |-> "get_balances", arg |-> [path |-> "/balances"]]}

\* handlers that give up the event loop between any two statements of
\* create_user and create_expense
awaits_in_create(op, pc) == op \in {"create_user", "create_expense"}

\* a get_balances that gives up the event loop between any two statements
awaits_in_get_balances(op, pc) == op = "get_balances"

\* main.py:163-297: no handler contains an await expression, so a handler
\* that has started keeps the event loop until it returns
awaits(op, pc) == FALSE

\* The coroutine the loop runs after task t reached statement pc
Yield(t, pc) == IF awaits(tasks[t].op, pc) THEN 0 ELSE t

\* The loop can run a statement of task t
OnLoop(t, op, pc) ==
    /\ running \in {0, t}
    /\ tasks[t].op = op
    /\ tasks[t].pc = pc

At(t, pc, loc) == [tasks EXCEPT ![t].pc = pc, ![t].loc = loc]

Returned(t, status, detail, body) ==
    [tasks EXCEPT ![t].pc = "done",
                  ![t].res = [status |-> status, detail |-> detail, body |-> body]]

\* history: every get_balances in progress notes the report of the ledger
\* as it now is
Observed(ts, users, expenses) ==
    [s \in Tasks |->
        IF ts[s].op = "get_balances" /\ ts[s].pc \in {"loop", "output"}
        THEN [ts[s] EXCEPT !.seen = @ \cup {get_balances(users, expenses)}]
        ELSE ts[s]]

\* A client sends a request while others are in flight
Submit(t, req) ==
    /\ tasks[t].pc = "idle"
    /\ \A s \in Tasks : s < t => tasks[s].pc # "idle"
    /\ tasks' = [tasks EXCEPT ![t].op = req.op, ![t].arg = req.arg, ![t].pc = "ready"]
    /\ UNCHANGED <<mem, store, last, issued_user_ids, issued_expense_ids, running>>

\* create_user, main.py:163-169: the body is validated, new_user is built
UserBuild(t) ==
    /\ OnLoop(t, "create_user", "ready")
    /\ IF ~valid_user(tasks[t].arg)
       THEN /\ tasks' = Returned(t, 422, 0, <<>>)
            /\ running' = 0
            /\ Reply("create_user", 422, 0, <<>>)
       ELSE /\ next_user_id <= MaxUsers
            /\ tasks' = At(t, "insert", [id |-> next_user_id, name |-> tasks[t].arg.name])
            /\ running' = Yield(t, "insert")
            /\ UNCHANGED last
    /\ UNCHANGED <<mem, store, issued_user_ids, issued_expense_ids>>

\* create_user, main.py:170: db_users[next_user_id] = new_user
UserInsert(t) ==
    /\ OnLoop(t, "create_user", "insert")
    /\ db_users' = DictSet(db_users, next_user_id, tasks[t].loc)
    /\ tasks' = Observed(At(t, "increment", tasks[t].loc), db_users', db_expenses)
    /\ running' = Yield(t, "increment")
    /\ UNCHANGED <<db_expenses, next_user_id, next_expense_id, store, last,
                   issued_user_ids, issued_expense_ids>>

\* create_user, main.py:171: next_user_id += 1
UserIncrement(t) ==
    /\ OnLoop(t, "create_user", "increment")
    /\ next_user_id' = next_user_id + 1
    /\ tasks' = At(t, "save", tasks[t].loc)
    /\ running' = Yield(t, "save")
    /\ UNCHANGED <<db_users, db_expenses, next_expense_id, store, last,
                   issued_user_ids, issued_expense_ids>>

\* create_user, main.py:172-173: save_data(); return new_user
UserSave(t) ==
    /\ OnLoop(t, "create_user", "save")
    /\ store' = save_data(db_users, db_expenses, next_user_id, next_expense_id,
                          "ok", store)
    /\ tasks' = Returned(t, 201, 0, tasks[t].loc)
    /\ running' = 0
    /\ Reply("create_user", 201, 0, tasks[t].loc)
    /\ issued_user_ids' = issued_user_ids \cup {tasks[t].loc.id}
    /\ UNCHANGED <<mem, issued_expense_ids>>

\* create_expense, main.py:193-212: the body is validated, the payer and
\* the participants are looked up
ExpenseCheck(t) ==
    /\ OnLoop(t, "create_expense", "ready")
    /\ LET expense_in == tasks[t].arg
           checked == check_expense(db_users, expense_in)
       IN  IF ~valid_expense(expense_in)
           THEN /\ tasks' = Returned(t, 422, 0, <<>>)
                /\ running' = 0
                /\ Reply("create_expense", 422, 0, <<>>)
           ELSE IF ~checked.ok
           THEN /\ tasks' = Returned(t, checked.status, checked.detail, <<>>)
                /\ running' = 0
                /\ Reply("create_expense", checked.status, checked.detail, <<>>)
           ELSE /\ next_expense_id <= MaxExpenses
                /\ tasks' = At(t, "build", <<>>)
                /\ running' = Yield(t, "build")
                /\ UNCHANGED last
    /\ UNCHANGED <<mem, store, issued_user_ids, issued_expense_ids>>

\* create_expense, main.py:214-218: new_expense_dict is built
ExpenseBuild(t, at) ==
    /\ OnLoop(t, "create_expense", "build")
    /\ tasks' = At(t, "append", new_expense_dict(tasks[t].arg, next_expense_id, at))
    /\ running' = Yield(t, "append")
    /\ UNCHANGED <<mem, store, last, issued_user_ids, issued_expense_ids>>

\* create_expense, main.py:220: db_expenses.append(new_expense_dict)
ExpenseAppend(t) ==
    /\ OnLoop(t, "create_expense", "append")
    /\ db_expenses' = Append(db_expenses, tasks[t].loc)
    /\ tasks' = Observed(At(t, "increment", tasks[t].loc), db_users, db_expenses')
    /\ running' = Yield(t, "increment")
    /\ UNCHANGED <<db_users, next_user_id, next_expense_id, store, last,
                   issued_user_ids, issued_expense_ids>>

\* create_expense, main.py:221: next_expense_id += 1
ExpenseIncrement(t) ==
    /\ OnLoop(t, "create_expense", "increment")
    /\ next_expense_id' = next_expense_id + 1
    /\ tasks' = At(t, "save", tasks[t].loc)
    /\ running' = Yield(t, "save")
    /\ UNCHANGED <<db_users, db_expenses, next_user_id, store, last,
                   issued_user_ids, issued_expense_ids>>

\* create_expense, main.py:222-225: save_data(); return new_expense_dict
ExpenseSave(t) ==
    /\ OnLoop(t, "create_expense", "save")
    /\ store' = save_data(db_users, db_expenses, next_user_id, next_expense_id,
                          "ok", store)
    /\ tasks' = Returned(t, 201, 0, tasks[t].loc)
    /\ running' = 0
    /\ Reply("create_expense", 201, 0, tasks[t].loc)
    /\ issued_expense_ids' = issued_expense_ids \cup {tasks[t].loc.id}
    /\ UNCHANGED <<mem, issued_user_ids>>

\* get_balances, main.py:251-261: return [] without users, else a zero
\* balance per key of db_users
BalancesStart(t) ==
    /\ OnLoop(t, "get_balances", "ready")
    /\ LET began == [tasks EXCEPT ![t].seen = {get_balances(db_users, db_expenses)}]
       IN  IF db_users = <<>>
           THEN /\ tasks' = [began EXCEPT ![t].pc = "done",
                                	       ![t].res = [status |-> 200, detail |-> 0,
                                                    body |-> <<>>]]
                /\ running' = 0
                /\ Reply("get_balances", 200, 0, <<>>)
           ELSE /\ tasks' = [began EXCEPT
                                ![t].pc = "loop",
                                ![t].loc = [balances |-> ZeroBalances(db_users), i |-> 1]]
                /\ running' = Yield(t, "loop")
                /\ UNCHANGED last
    /\ UNCHANGED <<mem, store, issued_user_ids, issued_expense_ids>>

\* get_balances, main.py:263-283: one turn of `for expense in db_expenses`
BalancesLoop(t) ==
    /\ OnLoop(t, "get_balances", "loop")
    /\ LET loc == tasks[t].loc
       IN  IF loc.i > Len(db_expenses)
           THEN /\ tasks' = At(t, "output", loc)
                /\ running' = Yield(t, "output")
                /\ UNCHANGED last
           ELSE LET one == apply_expense(loc.balances, db_expenses[loc.i])
                IN  IF one.raised
                    THEN /\ tasks' = Returned(t, 500, 0, <<>>)
                         /\ running' = 0
                         /\ Reply("get_balances", 500, 0, <<>>)
                    ELSE /\ tasks' = At(t, "loop", [balances |-> one.balances,
                                                    i |-> loc.i + 1])
                         /\ running' = Yield(t, "loop")
                         /\ UNCHANGED last
    /\ UNCHANGED <<mem, store, issued_user_ids, issued_expense_ids>>

\* get_balances, main.py:285-297: the report is built and returned
BalancesOutput(t) ==
    /\ OnLoop(t, "get_balances", "output")
    /\ LET body == user_balances(tasks[t].loc.balances, db_users)
       IN  /\ tasks' = Returned(t, 200, 0, body)
           /\ Reply("get_balances", 200, 0, body)
    /\ running' = 0
    /\ UNCHANGED <<mem, store, issued_user_ids, issued_expense_ids>>

(***************************************************************************)
(* Specifications.                                                         *)
(***************************************************************************)
\* The process as it starts on the data file it finds
Started(file) ==
    LET g == load_data(Defaults, file)
    IN  /\ store = file
        /\ db_users = g.db_users
        /\ db_expenses = g.db_expenses
        /\ next_user_id = g.next_user_id
        /\ next_expense_id = g.next_expense_id
        /\ last = [op |-> "start", status |-> 0, detail |-> 0, body |-> <<>>]
        /\ issued_user_ids = {}
        /\ issued_expense_ids = {}
        /\ tasks = [t \in Tasks |-> Idle]
        /\ running = 0

\* Spec: first start, no data file; the disk never fails
Init == Started(Absent)

Next ==
    \/ \E user_in \in UserInputs : CreateUser(user_in, "ok")
    \/ \E expense_in \in ExpenseInputs, at \in ClockInputs :
           CreateExpense(expense_in, at, "ok")
    \/ GetUsers
    \/ \E user_id \in UserIdInputs : GetUser(user_id)
    \/ GetExpenses
    \/ GetBalances

Spec == Init /\ [][Next]_vars

\* SpecStore: first start, no data file; any save may fail, and the process
\* may be restarted between two requests
StoreUserInputs == {[name |-> "Alice"], [other |-> "x"]}
StoreExpenseInputs ==
    {ExpenseIn(2, 1, <<1, 2>>), ExpenseIn(1, 2, <<2>>), ExpenseIn(0, 1, <<1, 2>>)}
StoreClockInputs == {7, 8}

NextStore ==
    \/ \E user_in \in StoreUserInputs, io \in SaveOutcomes : CreateUser(user_in, io)
    \/ \E expense_in \in StoreExpenseInputs, at \in StoreClockInputs,
          io \in SaveOutcomes : CreateExpense(expense_in, at, io)
    \/ Restart

SpecStore == Init /\ [][NextStore]_vars

\* SpecDurable: as SpecStore, on a disk that never fails
NextDurable ==
    \/ \E user_in \in StoreUserInputs : CreateUser(user_in, "ok")
    \/ \E expense_in \in StoreExpenseInputs, at \in StoreClockInputs :
          CreateExpense(expense_in, at, "ok")
    \/ Restart

SpecDurable == Init /\ [][NextDurable]_vars

\* SpecLoad: the process starts on a data file it did not necessarily write
Alice == [id |-> 1, name |-> "Alice"]
Bob == [id |-> 2, name |-> "Bob"]
Dinner ==
    [id |-> 1, description |-> "Dinner", amount |-> 2, paid_by_user_id |-> 1,
     participants |-> <<1, 2>>, created_at |-> [t |-> "str", at |-> 7, off |-> "Z"]]

UsersEntries ==
    {Missing, JsonNumber(0),
     JsonObject(<<[k |-> "1", v |-> Alice], [k |-> "2", v |-> Bob]>>),
     JsonObject(<<[k |-> "1", v |-> Alice], [k |-> "x", v |-> Bob]>>)}
ExpensesEntries ==
    {Missing, JsonNumber(0), JsonArray(<<Dinner>>), JsonArray(<<Dinner, JsonNumber(0)>>)}

StoreInputs ==
    {Absent, Undecodable, [t |-> "array"]}
    \cup [t : {"object"}, users : UsersEntries, expenses : ExpensesEntries,
          next_user_id : {Missing, JsonNumber(3)},
          next_expense_id : {Missing, JsonNumber(2)}]

InitLoad == \E file \in StoreInputs : Started(file)

SpecLoad == InitLoad /\ [][NextStore]_vars

\* SpecConc: the process starts on a data file it wrote earlier and serves
\* up to MaxTasks requests that are in flight at the same time
ConcStores ==
    LET users == <<[k |-> 1, v |-> Alice], [k |-> 2, v |-> Bob]>>
        dinner == new_expense_dict(ExpenseIn(2, 1, <<1, 2>>), 1, 7)
    IN  {data_to_save(users, <<>>, 3, 1), data_to_save(users, <<dinner>>, 3, 2)}

NextConc ==
    \/ \E t \in Tasks, req \in ConcRequests : Submit(t, req)
    \/ \E t \in Tasks : UserBuild(t)
    \/ \E t \in Tasks : UserInsert(t)
    \/ \E t \in Tasks : UserIncrement(t)
    \/ \E t \in Tasks : UserSave(t)
    \/ \E t \in Tasks : ExpenseCheck(t)
    \/ \E t \in Tasks, at \in ClockInputs : ExpenseBuild(t, at)
    \/ \E t \in Tasks : ExpenseAppend(t)
    \/ \E t \in Tasks : ExpenseIncrement(t)
    \/ \E t \in Tasks : ExpenseSave(t)
    \/ \E t \in Tasks : BalancesStart(t)
    \/ \E t \in Tasks : BalancesLoop(t)
    \/ \E t \in Tasks : BalancesOutput(t)

InitConc == \E file \in ConcStores : Started(file)

SpecConc == InitConc /\ [][NextConc]_vars

(***************************************************************************)
(* Properties.                                                             *)
(***************************************************************************)
RECURSIVE SumFracs(_)
SumFracs(balances) ==
    IF balances = <<>> THEN Whole(0)
    ELSE FracAdd(Head(balances).v, SumFracs(Tail(balances)))

RECURSIVE SumReported(_)
SumReported(body) ==
    IF body = <<>> THEN 0 ELSE Head(body).balance + SumReported(Tail(body))

BalancesReported == last.op = "get_balances" /\ last.status = 200

\* C1, as claimed: the balances GET /balances reports sum to zero.
C1_ReportedSumIsZero == BalancesReported => SumReported(last.body) = 0

\* C1, amended: the balances sum to zero before they are rounded; the
\* reported balances, each rounded to a hundredth, sum to at most half a
\* hundredth per registered user away from zero.
C1_UnroundedSumIsZero ==
    LET acc == accumulate(ZeroBalances(db_users), db_expenses)
    IN  /\ ~acc.raised
        /\ SumFracs(acc.balances) = Whole(0)
        /\ BalancesReported =>
              2 * Abs(SumReported(last.body)) <= Len(db_users)

C1_Witness ==
    /\ BalancesReported
    /\ Len(db_expenses) = 2
    /\ SumReported(last.body) # 0

RefersToUnknownUser(expense_in) ==
    \/ expense_in.paid_by_user_id \notin DictKeys(db_users)
    \/ \E i \in DOMAIN expense_in.participants :
          expense_in.participants[i] \notin DictKeys(db_users)

C2_Step ==
  \A expense_in \in ExpenseInputs, at \in ClockInputs :
    (CreateExpense(expense_in, at, "ok") /\ RefersToUnknownUser(expense_in)) =>
        /\ last'.op = "create_expense"
        /\ last'.status # 201
        /\ valid_expense(expense_in) => last'.status = 404
        /\ UNCHANGED <<db_users, db_expenses, next_user_id, next_expense_id, store>>

\* C2: POST /expenses naming a payer or a participant that is no registered
\* user fails and changes nothing: users, expenses, both counters and the
\* data file stay as they were.  The failure is the 404 of get_user_or_404
\* whenever the body passes the schema (a body the schema rejects fails
\* with the schema's 422 before any user is looked up).
C2_UnknownUserChangesNothing == [][C2_Step]_vars

C2_Witness ==
    /\ last.op = "create_expense"
    /\ last.status = 404
    /\ db_users # <<>>
    /\ db_expenses # <<>>

C3_Step ==
  \A expense_in \in ExpenseInputs, at \in ClockInputs :
    (/\ CreateExpense(expense_in, at, "ok")
     /\ (expense_in.amount <= 0 \/ expense_in.participants = <<>>)) =>
        /\ last'.op = "create_expense"
        /\ last'.status = 422
        /\ UNCHANGED <<db_users, db_expenses, next_user_id, next_expense_id, store>>

C3_LedgerWellFormed ==
    \A i \in DOMAIN db_expenses :
        db_expenses[i].amount > 0 /\ Len(db_expenses[i].participants) >= 1

\* C3: POST /expenses with amount <= 0 or with no participants fails with
\* the schema's validation error and changes nothing; every expense in the
\* ledger has amount > 0 and at least one participant.
C3_InvalidExpenseChangesNothing ==
    [][C3_Step /\ C3_LedgerWellFormed']_vars

C3_Witness ==
    /\ last.op = "create_expense"
    /\ last.status = 422
    /\ db_expenses # <<>>

\* C4, as claimed: no registered user has the empty name (POST /users with
\* an empty name is rejected).
C4_NoEmptyName == \A i \in DOMAIN db_users : db_users[i].v.name # ""

UserKeysInOrder == [i \in DOMAIN db_users |-> db_users[i].k]
UserIdsInOrder == [i \in DOMAIN db_users |-> db_users[i].v.id]
ExpenseIdsInOrder == [i \in DOMAIN db_expenses |-> db_expenses[i].id]
Counting(n) == [i \in 1..n |-> i]

C5_Ids ==
    /\ UserKeysInOrder = Counting(next_user_id - 1)
    /\ UserIdsInOrder = Counting(next_user_id - 1)
    /\ ExpenseIdsInOrder = Counting(next_expense_id - 1)
    /\ issued_user_ids = 1..(next_user_id - 1)
    /\ issued_expense_ids = 1..(next_expense_id - 1)

C5_Step ==
    /\ (last'.op = "create_user" /\ last'.status = 201) =>
          /\ last'.body.id = Cardinality(issued_user_ids) + 1
          /\ last'.body.id < next_user_id'
          /\ next_expense_id' = next_expense_id
    /\ (last'.op = "create_expense" /\ last'.status = 201) =>
          /\ last'.body.id = Cardinality(issued_expense_ids) + 1
          /\ last'.body.id < next_expense_id'
          /\ next_user_id' = next_user_id

\* C5: from the empty ledger the user ids are exactly 1..next_user_id-1 and
\* the expense ids, in ledger order, exactly 1, 2, .., next_expense_id-1;
\* the k-th successful POST /users returns id k and the k-th successful
\* POST /expenses returns id k, each below its counter; a registration
\* leaves next_expense_id alone and a recording leaves next_user_id alone.
C5_SequentialIds == [][C5_Step /\ C5_Ids']_vars

C5_Witness ==
    /\ next_user_id = 4
    /\ next_expense_id = 3
    /\ last.op = "create_expense"
    /\ last.status = 201
    /\ last.body.id = 2

\* C8: the payer and every participant of every expense in the ledger is a
\* key of db_users.
C8_ReferentialIntegrity ==
    \A i \in DOMAIN db_expenses :
        /\ db_expenses[i].paid_by_user_id \in DictKeys(db_users)
        /\ \A j \in DOMAIN db_expenses[i].participants :
              db_expenses[i].participants[j] \in DictKeys(db_users)

C8_Witness ==
    /\ Len(db_expenses) = 2
    /\ \E i \in DOMAIN db_expenses :
          db_expenses[i].paid_by_user_id = 3 /\ db_expenses[i].participants = <<1, 2>>

\* The reference balance of C9: what user_id paid, less amount/len(participants)
\* for each time user_id is listed in an expense's participants.
Occurrences(participants, user_id) ==
    Cardinality({j \in DOMAIN participants : participants[j] = user_id})

RECURSIVE Paid(_, _)
Paid(expenses, user_id) ==
    IF expenses = <<>> THEN 0
    ELSE (IF Head(expenses).paid_by_user_id = user_id THEN Head(expenses).amount ELSE 0)
         + Paid(Tail(expenses), user_id)

RECURSIVE Owed(_, _)
Owed(expenses, user_id) ==
    IF expenses = <<>> THEN Whole(0)
    ELSE FracAdd(Frac(Head(expenses).amount
                        * Occurrences(Head(expenses).participants, user_id),
                      Len(Head(expenses).participants)),
                 Owed(Tail(expenses), user_id))

ReferenceBalance(user_id) ==
    FracSub(Whole(Paid(db_expenses, user_id)), Owed(db_expenses, user_id))

\* C9, as claimed: every reported balance is the reference balance itself.
C9_ReportIsReference ==
    BalancesReported =>
        \A i \in DOMAIN last.body :
            Frac(last.body[i].balance, 100) = ReferenceBalance(last.body[i].user_id)

\* C9, amended: every reported balance is the reference balance rounded to
\* two decimal places; the payer is credited the full amount also when not
\* a participant, and a participant listed k times is debited k shares.
C9_ReportIsRoundedReference ==
    BalancesReported =>
        /\ Len(last.body) = Len(db_users)
        /\ \A i \in DOMAIN last.body :
              last.body[i].balance = round2(ReferenceBalance(last.body[i].user_id))

C9_Witness ==
    /\ BalancesReported
    /\ \E i, j \in DOMAIN db_expenses :
          /\ db_expenses[i].participants = <<1, 1, 2>>
          /\ db_expenses[j].paid_by_user_id = 3
          /\ db_expenses[j].participants = <<1, 2>>

Registered == last'.op = "create_user" /\ last'.status = 201 /\ db_users' # db_users
Recorded ==
    last'.op = "create_expense" /\ last'.status = 201 /\ db_expenses' # db_expenses

\* C6, as claimed: over registrations, recordings, failing saves and restarts
\* neither counter ever goes down and no id is returned a second time.
C6_IdsNeverReused ==
    [][/\ next_user_id' >= next_user_id
       /\ next_expense_id' >= next_expense_id
       /\ Registered => last'.body.id \notin issued_user_ids
       /\ Recorded => last'.body.id \notin issued_expense_ids]_vars

\* A data file load_data can take in whole
WellFormedStore(file) ==
    /\ file.t = "object"
    /\ file.users.t = "object"
    /\ \A i \in DOMAIN file.users.items : IsIntText(file.users.items[i].k)
    /\ file.expenses.t = "array"
    /\ \A i \in DOMAIN file.expenses.items : IsDictElem(file.expenses.items[i])
    /\ file.next_user_id.t = "number"
    /\ file.next_expense_id.t = "number"

JustLoaded == last.op \in {"start", "restart"}

\* C7, as claimed: started on a data file that is not well-formed in every
\* part, the process holds exactly the empty state.
C7_LoadFallsBackToEmpty ==
    (JustLoaded /\ ~WellFormedStore(store)) =>
        Globals(db_users, db_expenses, next_user_id, next_expense_id) = Defaults

\* C10: what save_data writes for the state in memory, load_data reads back
\* as that same state: users under their integer ids in the same order, the
\* expenses in order with ids, amounts, payers, participants and datetimes,
\* and both counters.  A restart on a file just saved changes nothing.
C10_RoundTrip ==
    LET now == Globals(db_users, db_expenses, next_user_id, next_expense_id)
        file == save_data(db_users, db_expenses, next_user_id, next_expense_id,
                          "ok", store)
    IN  /\ load_data(Defaults, file) = now
        /\ (last.op = "restart" /\ store.t = "object") => store = file

C10_Witness ==
    /\ last.op = "restart"
    /\ Len(db_users) = 2
    /\ Len(db_expenses) = 2
    /\ db_expenses[1].created_at # db_expenses[2].created_at

ReadOps == {"get_users", "get_user", "get_expenses", "get_balances"}

\* C11: GET /users, GET /users/{id}, GET /expenses and GET /balances leave
\* users, expenses, both counters and the data file as they were, and each
\* returns what the same request returns when repeated right after it.
C11_ReadsArePure ==
    [][last'.op \in ReadOps =>
        /\ UNCHANGED <<db_users, db_expenses, next_user_id, next_expense_id, store>>
        /\ last'.op = "get_users" => last'.body = DictValues(db_users')
        /\ last'.op = "get_expenses" => last'.body = get_expenses(db_expenses').body
        /\ last'.op = "get_balances" =>
              last'.body = get_balances(db_users', db_expenses').body]_vars

C11_Witness ==
    /\ last.op = "get_expenses"
    /\ last.status = 200
    /\ Len(last.body) = 2

IsPrefix(s1, s2) ==
    /\ Len(s1) <= Len(s2)
    /\ \A i \in DOMAIN s1 : s1[i] = s2[i]

\* C12: every step keeps the expenses it found as an unchanged prefix; a
\* successful POST /expenses adds exactly one entry, the one it returns, at
\* the end, and nothing else adds any; GET /expenses returns the ledger in
\* this order.
C12_AppendOnly ==
    [][/\ IsPrefix(db_expenses, db_expenses')
       /\ IF last'.op = "create_expense" /\ last'.status = 201
             /\ db_expenses' # db_expenses
          THEN db_expenses' = Append(db_expenses, last'.body)
          ELSE db_expenses' = db_expenses
       /\ (last'.op = "get_expenses" /\ last'.status = 200) =>
             /\ Len(last'.body) = Len(db_expenses)
             /\ \A i \in DOMAIN db_expenses : last'.body[i].id = db_expenses[i].id]_vars

C12_Witness ==
    /\ last.op = "create_expense"
    /\ last.status = 201
    /\ Len(db_expenses) = 2
    /\ db_expenses[2] = last.body
    /\ db_expenses[1].amount > db_expenses[2].amount

\* C13: a user once stored stays stored, under the same id, with the same
\* id and name, whatever request comes next.
C13_UsersImmutable ==
    [][\A i \in DOMAIN db_users :
          /\ DictHas(db_users', db_users[i].k)
          /\ DictGet(db_users', db_users[i].k) = db_users[i].v
          /\ db_users[i].v.id = db_users[i].k]_vars

C13_Witness ==
    /\ Len(db_users) = 3
    /\ Len(db_expenses) = 2
    /\ db_users[1].v.name # db_users[2].v.name
    /\ last.op \in ReadOps

NamedInLedger(user_id) ==
    \E j \in DOMAIN db_expenses :
        \/ db_expenses[j].paid_by_user_id = user_id
        \/ \E n \in DOMAIN db_expenses[j].participants :
              db_expenses[j].participants[n] = user_id

\* C14: GET /balances answers 200 with one entry per registered user, in
\* registration order, carrying that user's id and name; a user no expense
\* names has balance 0; with no user registered the answer is empty.
C14_OneEntryPerUser ==
    last.op = "get_balances" =>
        /\ last.status = 200
        /\ Len(last.body) = Len(db_users)
        /\ \A i \in DOMAIN last.body :
              /\ last.body[i].user_id = db_users[i].k
              /\ last.body[i].user_id = db_users[i].v.id
              /\ last.body[i].name = db_users[i].v.name
              /\ ~NamedInLedger(db_users[i].k) => last.body[i].balance = 0

C14_Witness ==
    /\ BalancesReported
    /\ Len(last.body) = 3
    /\ db_expenses # <<>>
    /\ ~NamedInLedger(3)
    /\ last.body[1].balance # 0
    /\ last.body[1].name # last.body[2].name

\* The response C18 expects: the first check to fail, in the order amount,
\* participants non-empty, payer, participants one by one
FirstUnknown(participants) ==
    participants[CHOOSE i \in DOMAIN participants :
        /\ participants[i] \notin DictKeys(db_users)
        /\ \A j \in 1..(i - 1) : participants[j] \in DictKeys(db_users)]

FirstFailure(expense_in) ==
    IF expense_in.amount <= 0 THEN <<422, 0>>
    ELSE IF expense_in.participants = <<>> THEN <<422, 0>>
    ELSE IF expense_in.paid_by_user_id \notin DictKeys(db_users)
         THEN <<404, expense_in.paid_by_user_id>>
    ELSE IF \E i \in DOMAIN expense_in.participants :
               expense_in.participants[i] \notin DictKeys(db_users)
         THEN <<404, FirstUnknown(expense_in.participants)>>
    ELSE <<201, 0>>

\* C18: POST /expenses answers with the first failing check in the order
\* amount > 0, participants non-empty (both the schema's validation error),
\* payer registered, each participant registered in list order (the 404
\* names that user id); it succeeds only when none fails.
C18_FirstFailureReported ==
    [][\A expense_in \in ExpenseInputs, at \in ClockInputs :
          CreateExpense(expense_in, at, "ok") =>
              <<last'.status, last'.detail>> = FirstFailure(expense_in)]_vars

\* a 404 naming user 2 while only user 1 is registered: the payer of
\* (2, [3, 2]), or the first of the two unknown participants of [1, 2, 3]
C18_Witness ==
    /\ last.op = "create_expense"
    /\ last.status = 404
    /\ last.detail = 2
    /\ Len(db_users) = 1

FailedSaves == SaveOutcomes \ {"ok"}

\* C15: when the write of save_data fails during POST /users or
\* POST /expenses, the request still answers 201 with the new user or
\* expense, which is in memory with its counter advanced.
C15_FailedSaveNotPropagated ==
    [][/\ \A user_in \in StoreUserInputs, io \in FailedSaves :
            (CreateUser(user_in, io) /\ valid_user(user_in)) =>
                /\ last'.status = 201
                /\ last'.body = [id |-> next_user_id, name |-> user_in.name]
                /\ DictHas(db_users', next_user_id)
                /\ DictGet(db_users', next_user_id) = last'.body
                /\ next_user_id' = next_user_id + 1
       /\ \A expense_in \in StoreExpenseInputs, at \in StoreClockInputs,
             io \in FailedSaves :
            (CreateExpense(expense_in, at, io) /\ FirstFailure(expense_in)[1] = 201) =>
                /\ last'.status = 201
                /\ last'.body.id = next_expense_id
                /\ last'.body.amount = expense_in.amount
                /\ db_expenses' = Append(db_expenses, last'.body)
                /\ next_expense_id' = next_expense_id + 1]_vars

\* an expense returned and in memory while the file still lacks it
C15_Witness ==
    /\ last.op = "create_expense"
    /\ last.status = 201
    /\ Len(db_expenses) = 2
    /\ db_expenses[2] = last.body
    /\ store # data_to_save(db_users, db_expenses, next_user_id, next_expense_id)

\* C19: while every save succeeds, the data file after each successful
\* POST /users or POST /expenses loads as exactly the state in memory, and
\* a restart between two requests brings back that state: users, expenses
\* and both counters as they were.
C19_DurableAfterEachMutation ==
    [][/\ (Registered \/ Recorded) =>
             load_data(Defaults, store') =
                 Globals(db_users', db_expenses', next_user_id', next_expense_id')
       /\ last'.op = "restart" =>
             UNCHANGED <<db_users, db_expenses, next_user_id, next_expense_id>>]_vars

C19_Witness ==
    /\ last.op = "restart"
    /\ next_user_id = 3
    /\ next_expense_id = 3
    /\ store = data_to_save(db_users, db_expenses, next_user_id, next_expense_id)

\* The tasks between their first statement and their return
InHandler == {t \in Tasks : tasks[t].pc \notin {"idle", "ready", "done"}}

\* Those of them that register or record
Mutating == {t \in InHandler : tasks[t].op \in {"create_user", "create_expense"}}

\* The tasks of handler op that returned 201
Created(op) ==
    {t \in Tasks : tasks[t].op = op /\ tasks[t].pc = "done" /\ tasks[t].res.status = 201}

\* C16: with register and record requests in flight at the same time, at
\* most one of them is between its first statement and its return; no two
\* of them are answered with the same id; every answered record is stored
\* under its id as it was answered; and whenever no handler is running each
\* counter is one more than the number of records, so no increment is lost.
C16_MutationsExclusive ==
    /\ Cardinality(Mutating) <= 1
    /\ \A op \in {"create_user", "create_expense"} :
         \A t1, t2 \in Created(op) :
             t1 # t2 => tasks[t1].res.body.id # tasks[t2].res.body.id
    /\ \A t \in Created("create_user") :
         /\ DictHas(db_users, tasks[t].res.body.id)
         /\ DictGet(db_users, tasks[t].res.body.id) = tasks[t].res.body
    /\ \A t \in Created("create_expense") :
         /\ tasks[t].res.body.id \in DOMAIN db_expenses
         /\ db_expenses[tasks[t].res.body.id] = tasks[t].res.body
    /\ Mutating = {} =>
         /\ next_user_id = Len(db_users) + 1
         /\ next_expense_id = Len(db_expenses) + 1

C16_Witness ==
    /\ Cardinality(Created("create_expense")) = 2
    /\ Cardinality(Created("create_user")) = 1
    /\ next_user_id = 4
    /\ next_expense_id = 3

\* C17: with register and record requests in flight at the same time,
\* every answer of get_balances is the report of the ledger as it was at
\* one moment between the first statement of that get_balances and its
\* return.
C17_BalancesOnOneSnapshot ==
    \A t \in Tasks :
        (tasks[t].op = "get_balances" /\ tasks[t].pc = "done") =>
            [status |-> tasks[t].res.status, body |-> tasks[t].res.body]
                \in tasks[t].seen

C17_Witness ==
    \E t \in Tasks, c \in Created("create_expense"), w \in Tasks :
        /\ tasks[t].op = "get_balances" /\ tasks[t].pc = "done"
        /\ tasks[t].res.status = 200
        /\ \E i \in DOMAIN tasks[t].res.body : tasks[t].res.body[i].balance # 0
        /\ Len(db_expenses) = 1
        /\ tasks[w].op = "create_user" /\ tasks[w].pc = "ready"

====
